---- MODULE Spec2Model ----
(***************************************************************************)
(* Announcement endpoints of the High School Management System API         *)
(* (src/backend/routers/announcements.py): the announcement collection,    *)
(* the four endpoints and the date handling they rely on.                  *)
(*                                                                         *)
(* Strings are kept as TLA+ strings in the state; Chars gives the          *)
(* characters of each string of the universe, so that parsing              *)
(* (datetime.strptime) and ordering (str comparison, MongoDB $gte) are     *)
(* computed character by character as Python and MongoDB compute them.     *)
(***************************************************************************)
EXTENDS Integers, Sequences, FiniteSets, TLC

\* ------------------------------------------------------------------ bounds
\* Number of announcements ever inserted (ObjectIds ever issued).
MaxIds == 2
\* Number of midnights that pass while the system runs.
MaxTicks == 1
\* Number of requests served concurrently.
NumProcs == 2

\* ------------------------------------------------------------- characters
\* Python's None (Optional[str] = None), a token outside the string universe.
None == "<None>"

\* The characters of the strings used as request values.
Chars(s) ==
    CASE s = ""           -> << >>
      [] s = "2025-06-05" -> <<"2","0","2","5","-","0","6","-","0","5">>
      [] s = "2025-06-06" -> <<"2","0","2","5","-","0","6","-","0","6">>
      [] s = "2025-6-6"   -> <<"2","0","2","5","-","6","-","6">>
      [] s = "2025-06-31" -> <<"2","0","2","5","-","0","6","-","3","1">>

\* ord(c) for the characters that occur.
Ord(c) ==
    CASE c = " " -> 32 [] c = "-" -> 45 [] c = "/" -> 47
      [] c = "0" -> 48 [] c = "1" -> 49 [] c = "2" -> 50 [] c = "3" -> 51
      [] c = "4" -> 52 [] c = "5" -> 53 [] c = "6" -> 54 [] c = "7" -> 55
      [] c = "8" -> 56 [] c = "9" -> 57

IsDigit(c) == c \in {"0","1","2","3","4","5","6","7","8","9"}

DigitVal(c) == Ord(c) - Ord("0")

\* Python's str ordering, which is also MongoDB's ordering of string values
\* under the default (binary) collation: the first differing character
\* decides, a proper prefix is smaller.
StrLess(a, b) ==
    \/ \E i \in 1..Len(a) :
          /\ i <= Len(b)
          /\ \A j \in 1..(i - 1) : a[j] = b[j]
          /\ Ord(a[i]) < Ord(b[i])
    \/ /\ Len(a) < Len(b)
       /\ \A j \in 1..Len(a) : a[j] = b[j]

StrGte(a, b) == ~StrLess(a, b)

StrGt(a, b) == StrLess(b, a)

\* ------------------------------------------------------------------ dates
IsLeap(y) == (y % 4 = 0 /\ y % 100 # 0) \/ y % 400 = 0

DaysInMonth(y, m) ==
    IF m = 2 THEN (IF IsLeap(y) THEN 29 ELSE 28)
    ELSE IF m \in {4, 6, 9, 11} THEN 30 ELSE 31

\* The result of a failed parse (ValueError).
ValueError == [ok |-> FALSE, year |-> 0, month |-> 0, day |-> 0]

\* datetime.strptime(s, "%Y-%m-%d").date() on the characters cs.  The format
\* compiles to the regular expression
\*   (\d\d\d\d)-(1[0-2]|0[1-9]|[1-9])-(3[01]|[12]\d|0[1-9]|[1-9]| [1-9])
\* which must consume the whole string; the fields must then form a date.
strptime(cs) ==
    IF Len(cs) < 8 \/ Len(cs) > 10 THEN ValueError
    ELSE IF ~(\A i \in 1..4 : IsDigit(cs[i])) \/ cs[5] # "-" THEN ValueError
    ELSE
      LET k  == IF cs[7] = "-" THEN 7 ELSE 8
          mc == SubSeq(cs, 6, k - 1)
          dc == SubSeq(cs, k + 1, Len(cs))
          y  == 1000 * DigitVal(cs[1]) + 100 * DigitVal(cs[2])
                  + 10 * DigitVal(cs[3]) + DigitVal(cs[4])
          monthOk ==
              \/ Len(mc) = 1 /\ IsDigit(mc[1]) /\ mc[1] # "0"
              \/ Len(mc) = 2 /\ mc[1] = "1" /\ mc[2] \in {"0","1","2"}
              \/ Len(mc) = 2 /\ mc[1] = "0" /\ IsDigit(mc[2]) /\ mc[2] # "0"
          dayOk ==
              \/ Len(dc) = 1 /\ IsDigit(dc[1]) /\ dc[1] # "0"
              \/ Len(dc) = 2 /\ dc[1] = "3" /\ dc[2] \in {"0","1"}
              \/ Len(dc) = 2 /\ dc[1] \in {"1","2"} /\ IsDigit(dc[2])
              \/ Len(dc) = 2 /\ dc[1] = "0" /\ IsDigit(dc[2]) /\ dc[2] # "0"
              \/ Len(dc) = 2 /\ dc[1] = " " /\ IsDigit(dc[2]) /\ dc[2] # "0"
      IN IF cs[k] # "-" \/ ~monthOk \/ ~dayOk THEN ValueError
         ELSE
           LET m == IF Len(mc) = 1 THEN DigitVal(mc[1])
                    ELSE 10 * DigitVal(mc[1]) + DigitVal(mc[2])
               d == IF Len(dc) = 1 THEN DigitVal(dc[1])
                    ELSE IF dc[1] = " " THEN DigitVal(dc[2])
                    ELSE 10 * DigitVal(dc[1]) + DigitVal(dc[2])
           IN IF y < 1 \/ d > DaysInMonth(y, m) THEN ValueError
              ELSE [ok |-> TRUE, year |-> y, month |-> m, day |-> d]

\* The strings Chars spells out.
Strings == {"", "2025-06-05", "2025-06-06", "2025-6-6", "2025-06-31"}

\* strptime on each string of the universe, computed once.
ParsedDates == [s \in Strings |-> strptime(Chars(s))]

\* datetime.strptime(s, "%Y-%m-%d").date().
ParseDate(s) == ParsedDates[s]

\* date.__lt__ / __gt__: dates order by (year, month, day).
DateLess(a, b) ==
    \/ a.year < b.year
    \/ a.year = b.year /\ a.month < b.month
    \/ a.year = b.year /\ a.month = b.month /\ a.day < b.day

DigitChar(n) ==
    CASE n = 0 -> "0" [] n = 1 -> "1" [] n = 2 -> "2" [] n = 3 -> "3"
      [] n = 4 -> "4" [] n = 5 -> "5" [] n = 6 -> "6" [] n = 7 -> "7"
      [] n = 8 -> "8" [] n = 9 -> "9"

\* date.isoformat(): zero-padded YYYY-MM-DD.
isoformat(d) ==
    << DigitChar(d.year \div 1000), DigitChar((d.year \div 100) % 10),
       DigitChar((d.year \div 10) % 10), DigitChar(d.year % 10), "-",
       DigitChar(d.month \div 10), DigitChar(d.month % 10), "-",
       DigitChar(d.day \div 10), DigitChar(d.day % 10) >>

\* The calendar day after d.
NextDay(d) ==
    IF d.day < DaysInMonth(d.year, d.month)
      THEN [d EXCEPT !.day = d.day + 1]
    ELSE IF d.month < 12
      THEN [d EXCEPT !.month = d.month + 1, !.day = 1]
    ELSE [d EXCEPT !.year = d.year + 1, !.month = 1, !.day = 1]

\* The day the system is started on.
FirstDay == [ok |-> TRUE, year |-> 2025, month |-> 6, day |-> 5]

RECURSIVE AddDays(_, _)
AddDays(d, n) == IF n = 0 THEN d ELSE AddDays(NextDay(d), n - 1)

\* ------------------------------------------------------------ the database
\* teachers_collection: the teacher accounts (never modified by this router).
teachers_collection == {"mrodriguez"}


\* The authentication with its test left out: every identity passes.
TeacherKnownAnyone(teacher_username) == TRUE

\* find_one on teachers_collection returns a document exactly for a stored
\* username.
TeacherKnown(teacher_username) == teacher_username \in teachers_collection

\* str(ObjectId): the identifier string of the n-th ObjectId the store issues.
str(n) ==
    CASE n = 1 -> "a1" [] n = 2 -> "a2" [] n = 3 -> "a3" [] n = 4 -> "a4"

\* ObjectId(announcement_id): the ObjectId a well-formed identifier string
\* denotes, 0 where the constructor raises.
ObjectId(announcement_id) ==
    IF \E n \in 1..4 : str(n) = announcement_id
      THEN CHOOSE n \in 1..4 : str(n) = announcement_id
      ELSE 0

\* What find_one returns when no document matches (None).
NoDocument == [_id |-> 0]

\* announcements_collection.find_one({"_id": obj_id}) on the collection coll.
find_one(coll, obj_id) ==
    IF \E d \in coll : d._id = obj_id
      THEN CHOOSE d \in coll : d._id = obj_id
      ELSE NoDocument

\* announcements_collection.insert_one(doc): the store assigns the next
\* ObjectId and adds the document.
insert_one(coll, doc, n) ==
    [coll |-> coll \cup {[_id |-> n] @@ doc}, inserted_id |-> n]


\* update_doc built without its is_active entry: the flag is never written.
SetFieldsButActive(d, update_doc) ==
    [k \in DOMAIN d |->
        IF k \in DOMAIN update_doc /\ k # "is_active"
          THEN update_doc[k] ELSE d[k]]

\* {"$set": update_doc} applied to one document.
SetFields(d, update_doc) ==
    [k \in DOMAIN d |-> IF k \in DOMAIN update_doc THEN update_doc[k] ELSE d[k]]


\* An update_one that counts a document as matched only when it changed it.
update_one_matched_if_modified(coll, obj_id, update_doc) ==
    LET d == find_one(coll, obj_id)
    IN IF d = NoDocument \/ SetFields(d, update_doc) = d
         THEN [coll |-> coll, matched_count |-> 0, modified_count |-> 0]
         ELSE [coll |-> (coll \ {d}) \cup {SetFields(d, update_doc)},
               matched_count |-> 1, modified_count |-> 1]

\* announcements_collection.update_one({"_id": obj_id}, {"$set": update_doc}).
update_one(coll, obj_id, update_doc) ==
    LET d == find_one(coll, obj_id)
    IN IF d = NoDocument
         THEN [coll |-> coll, matched_count |-> 0, modified_count |-> 0]
         ELSE [coll |-> (coll \ {d}) \cup {SetFields(d, update_doc)},
               matched_count |-> 1,
               modified_count |-> IF SetFields(d, update_doc) = d THEN 0 ELSE 1]


\* A delete_one that removes the document and reports no deletion.
delete_one_uncounted(coll, obj_id) ==
    LET d == find_one(coll, obj_id)
    IN [coll |-> coll \ {d}, deleted_count |-> 0]

\* A delete_one that reports a deletion and keeps the document.
delete_one_kept(coll, obj_id) ==
    LET d == find_one(coll, obj_id)
    IN IF d = NoDocument
         THEN [coll |-> coll, deleted_count |-> 0]
         ELSE [coll |-> coll, deleted_count |-> 1]

\* announcements_collection.delete_one({"_id": obj_id}).
delete_one(coll, obj_id) ==
    LET d == find_one(coll, obj_id)
    IN IF d = NoDocument
         THEN [coll |-> coll, deleted_count |-> 0]
         ELSE [coll |-> coll \ {d}, deleted_count |-> 1]

\* announcements_collection.find(query) with the query of get_announcements:
\* {} or {"is_active": True, "expiration_date": {"$gte": today}}, the latter
\* an ordering of strings.
find(coll, active_only, today_iso) ==
    IF active_only
      THEN {d \in coll : /\ d.is_active = TRUE
                         /\ StrGte(Chars(d.expiration_date), today_iso)}
      ELSE coll

\* The public shape: announcement["id"] = str(_id); del announcement["_id"].
Public(d) ==
    [id |-> str(d._id), message |-> d.message, start_date |-> d.start_date,
     expiration_date |-> d.expiration_date, is_active |-> d.is_active]

\* Python truthiness of an Optional[str]: None and "" are false.
Truthy(s) == s # None /\ s # ""

\* -------------------------------------------------------------- the state
VARIABLES
    announcements_collection,  \* the stored announcement documents
    issued,                    \* how many ObjectIds the store has issued
    today,                     \* date.today()
    pc,                        \* per request slot: where update_announcement is
    call,                      \* per request slot: the update being served
    resp                       \* the response the last step sent, if it sent one

vars == <<announcements_collection, issued, today, pc, call, resp>>

Procs == 1..NumProcs

\* ------------------------------------------------------------------ replies
\* raise HTTPException(status_code, detail), under the specification's names:
\* 401 Unauthorized, 400 InvalidInput, 404 NotFound, 500 StorageFailure.
Error(detail) == [detail |-> detail]

\* A response: the operation, who asked, for which identifier, the outcome,
\* the body, and how many announcements_collection operations the call issued.
Reply(op, teacher_username, announcement_id, status, body, ops) ==
    [op |-> op, teacher_username |-> teacher_username,
     announcement_id |-> announcement_id,
     status |-> status, body |-> body, ops |-> ops]

\* The step sent no response.
NoReply == Reply("none", "", "", "none", Error(""), 0)

\* No update is being served in the slot.
NoCall == [teacher_username |-> "", announcement_id |-> "", obj_id |-> 0,
           update_doc |-> << >>]

Init ==
    /\ announcements_collection = {}
    /\ issued = 0
    /\ today = FirstDay
    /\ pc = [p \in Procs |-> "idle"]
    /\ call = [p \in Procs |-> NoCall]
    /\ resp = NoReply

\* ------------------------------------------------------- get_announcements
\* The documents get_announcements(active_only) returns on the day whose
\* isoformat is today_iso.
ListAnnouncements(coll, active_only, today_iso) ==
    {Public(d) : d \in
        {a \in find(coll, active_only, today_iso) :
            ~(/\ active_only
              /\ Truthy(a.start_date)
              /\ StrGt(Chars(a.start_date), today_iso))}}

get_announcements(active_only) ==
    /\ resp' = Reply("list", "", "", "ok",
                     [items |-> ListAnnouncements(announcements_collection,
                                   active_only, isoformat(today))], 1)
    /\ UNCHANGED <<announcements_collection, issued, today, pc, call>>

\* ------------------------------------------------------ create_announcement
\* The date validation of create_announcement: the detail of the
\* HTTPException it raises, "" when it raises none.
CreateValidation(announcement, now) ==
    LET exp_date == ParseDate(announcement.expiration_date)
    IN IF ~exp_date.ok
         THEN "Invalid date format. Use YYYY-MM-DD"
       ELSE IF DateLess(exp_date, now)
         THEN "Expiration date cannot be in the past"
       ELSE IF Truthy(announcement.start_date)
         THEN LET start_date == ParseDate(announcement.start_date)
              IN IF ~start_date.ok
                   THEN "Invalid date format. Use YYYY-MM-DD"
                 ELSE IF DateLess(exp_date, start_date)
                   THEN "Start date cannot be after expiration date"
                 ELSE ""
       ELSE ""

create_announcement(announcement, teacher_username) ==
    LET detail == CreateValidation(announcement, today)
    IN IF ~TeacherKnown(teacher_username)
         THEN /\ resp' = Reply("create", teacher_username, "", "Unauthorized",
                               Error("Invalid teacher credentials"), 0)
              /\ UNCHANGED <<announcements_collection, issued, today, pc, call>>
       ELSE IF detail # ""
         THEN /\ resp' = Reply("create", teacher_username, "", "InvalidInput",
                               Error(detail), 0)
              /\ UNCHANGED <<announcements_collection, issued, today, pc, call>>
       ELSE
         /\ issued < MaxIds
         /\ LET result == insert_one(announcements_collection, announcement,
                                     issued + 1)
            IN /\ announcements_collection' = result.coll
               /\ issued' = issued + 1
               /\ resp' =
                    IF result.inserted_id = 0
                      THEN Reply("create", teacher_username, "",
                                 "StorageFailure",
                                 Error("Failed to create announcement"), 1)
                      ELSE Reply("create", teacher_username, "", "ok",
                                 [id |-> str(result.inserted_id)]
                                    @@ announcement, 1)
         /\ UNCHANGED <<today, pc, call>>

\* ------------------------------------------------------ update_announcement
\* update_doc.get(k, existing.get(k)).
Effective(update_doc, existing, k) ==
    IF k \in DOMAIN update_doc THEN update_doc[k] ELSE existing[k]

\* The date validation of update_announcement on the effective dates: the
\* detail of the HTTPException it raises, "" when it raises none.  An empty
\* update_doc skips it.
UpdateValidation(update_doc, existing) ==
    IF DOMAIN update_doc = {} THEN ""
    ELSE
      LET exp_date   == Effective(update_doc, existing, "expiration_date")
          start_date == Effective(update_doc, existing, "start_date")
          exp_date_obj == ParseDate(exp_date)
      IN IF ~exp_date_obj.ok
           THEN "Invalid date format. Use YYYY-MM-DD"
         ELSE IF Truthy(start_date)
           THEN LET start_date_obj == ParseDate(start_date)
                IN IF ~start_date_obj.ok
                     THEN "Invalid date format. Use YYYY-MM-DD"
                   ELSE IF DateLess(exp_date_obj, start_date_obj)
                     THEN "Start date cannot be after expiration date"
                   ELSE ""
         ELSE ""

\* update_announcement up to the write: authentication, ObjectId, the lookup
\* of the existing document, update_doc and its validation.
UpdateLookup(p, announcement_id, update_doc, teacher_username) ==
    /\ pc[p] = "idle"
    /\ LET obj_id   == ObjectId(announcement_id)
           existing == find_one(announcements_collection, obj_id)
           invalid  == UpdateValidation(update_doc, existing)
           fail(status, detail, ops) ==
               /\ resp' = Reply("update", teacher_username, announcement_id,
                                status, Error(detail), ops)
               /\ UNCHANGED <<pc, call>>
       IN IF ~TeacherKnown(teacher_username)
            THEN fail("Unauthorized", "Invalid teacher credentials", 0)
          ELSE IF obj_id = 0
            THEN fail("InvalidInput", "Invalid announcement ID", 0)
          ELSE IF existing = NoDocument
            THEN fail("NotFound", "Announcement not found", 1)
          ELSE IF invalid # ""
            THEN fail("InvalidInput", invalid, 1)
          ELSE /\ pc' = [pc EXCEPT ![p] = "update_one"]
               /\ call' = [call EXCEPT ![p] =
                     [teacher_username |-> teacher_username,
                      announcement_id |-> announcement_id,
                      obj_id |-> obj_id, update_doc |-> update_doc]]
               /\ resp' = NoReply
    /\ UNCHANGED <<announcements_collection, issued, today>>

\* update_announcement: update_one and the test of its counts.  The store
\* holds whatever update_one left, whichever way the test goes.
UpdateWrite(p) ==
    /\ pc[p] = "update_one"
    /\ LET result == update_one(announcements_collection, call[p].obj_id,
                                call[p].update_doc)
       IN IF result.modified_count = 0 /\ result.matched_count = 0
            THEN /\ resp' = Reply("update", call[p].teacher_username,
                                  call[p].announcement_id, "StorageFailure",
                                  Error("Failed to update announcement"), 2)
                 /\ pc' = [pc EXCEPT ![p] = "idle"]
                 /\ call' = [call EXCEPT ![p] = NoCall]
                 /\ announcements_collection' = result.coll
            ELSE /\ announcements_collection' = result.coll
                 /\ pc' = [pc EXCEPT ![p] = "find_one"]
                 /\ resp' = NoReply
                 /\ UNCHANGED call
    /\ UNCHANGED <<issued, today>>

\* update_announcement: the final find_one and the response.  Subscripting
\* the None that find_one returns for a missing document raises TypeError,
\* which no handler catches.
UpdateReturn(p) ==
    /\ pc[p] = "find_one"
    /\ LET updated == find_one(announcements_collection, call[p].obj_id)
       IN resp' =
            IF updated = NoDocument
              THEN Reply("update", call[p].teacher_username,
                         call[p].announcement_id, "TypeError",
                         Error("Internal Server Error"), 3)
              ELSE Reply("update", call[p].teacher_username,
                         call[p].announcement_id, "ok", Public(updated), 3)
    /\ pc' = [pc EXCEPT ![p] = "idle"]
    /\ call' = [call EXCEPT ![p] = NoCall]
    /\ UNCHANGED <<announcements_collection, issued, today>>

\* ------------------------------------------------------ delete_announcement
delete_announcement(announcement_id, teacher_username) ==
    /\ LET obj_id == ObjectId(announcement_id)
           result == delete_one(announcements_collection, obj_id)
           fail(status, detail, ops) ==
               /\ resp' = Reply("delete", teacher_username, announcement_id,
                                status, Error(detail), ops)
               /\ UNCHANGED announcements_collection
       IN IF ~TeacherKnown(teacher_username)
            THEN fail("Unauthorized", "Invalid teacher credentials", 0)
          ELSE IF obj_id = 0
            THEN fail("InvalidInput", "Invalid announcement ID", 0)
          ELSE IF result.deleted_count = 0
            THEN /\ announcements_collection' = result.coll
                 /\ resp' = Reply("delete", teacher_username, announcement_id,
                                  "NotFound", Error("Announcement not found"),
                                  1)
          ELSE /\ announcements_collection' = result.coll
               /\ resp' = Reply("delete", teacher_username, announcement_id,
                                "ok",
                                [message |-> "Announcement deleted successfully"],
                                1)
    /\ UNCHANGED <<issued, today, pc, call>>

\* ------------------------------------------------------------------- time
\* Midnight passes: date.today() returns the next day from now on.
Midnight ==
    /\ DateLess(today, AddDays(FirstDay, MaxTicks))
    /\ today' = NextDay(today)
    /\ resp' = NoReply
    /\ UNCHANGED <<announcements_collection, issued, pc, call>>

\* ----------------------------------------------------------- request values
TeacherInputs == {"mrodriguez", "stranger"}

\* Identifier strings of requests: the identifiers the store can issue, and
\* one that is no ObjectId.
IdInputs == {str(n) : n \in 1..MaxIds} \cup {"not-an-id"}

\* No value for field k, or one of the values S.
Opt(k, S) == {<< >>} \cup {k :> v : v \in S}

\* AnnouncementCreate bodies.
CreateInputs ==
    [message : {"m1"},
     start_date : {None, "", "2025-6-6", "2025-06-31"},
     expiration_date : {"2025-06-05", "2025-6-6", "2025-06-31"},
     is_active : {TRUE}]

\* AnnouncementUpdate bodies, as the fields that are not None.
UpdateInputs ==
    {m @@ s @@ e @@ a :
        m \in Opt("message", {"m2"}),
        s \in Opt("start_date", {"", "2025-6-6", "2025-06-31"}),
        e \in Opt("expiration_date", {"2025-06-05", "2025-06-31"}),
        a \in Opt("is_active", BOOLEAN)}

\* What a caller without a teacher account sends: well-formed and malformed
\* requests alike.
StrangerCreateInputs ==
    {a \in CreateInputs :
        a.start_date \in {None, "2025-6-6"}
          /\ a.expiration_date \in {"2025-06-05", "2025-06-31"}}

StrangerUpdateInputs ==
    {u \in UpdateInputs :
        Cardinality(DOMAIN u) <= 1 /\ "message" \notin DOMAIN u}

CreateRequests ==
    [announcement : CreateInputs, teacher_username : {"mrodriguez"}]
      \cup [announcement : StrangerCreateInputs, teacher_username : {"stranger"}]

UpdateRequests ==
    [announcement_id : IdInputs, announcement : UpdateInputs,
     teacher_username : {"mrodriguez"}]
      \cup [announcement_id : IdInputs, announcement : StrangerUpdateInputs,
            teacher_username : {"stranger"}]

\* ------------------------------------------------------- the specifications
List == \E active_only \in BOOLEAN : get_announcements(active_only)

Create ==
    \E r \in CreateRequests :
        create_announcement(r.announcement, r.teacher_username)

Delete ==
    \E announcement_id \in IdInputs, teacher_username \in TeacherInputs :
        delete_announcement(announcement_id, teacher_username)

Update(p) ==
    \E r \in UpdateRequests :
        UpdateLookup(p, r.announcement_id, r.announcement, r.teacher_username)

\* No update_announcement call is under way.
Quiet == \A p \in Procs : pc[p] = "idle"

\* Requests served one at a time: each call runs from its first line to its
\* response before the next call, or midnight, comes.
SerialNext ==
    \/ Quiet /\ List
    \/ Quiet /\ Create
    \/ Quiet /\ Delete
    \/ Quiet /\ Midnight
    \/ Quiet /\ Update(1)
    \/ UpdateWrite(1)
    \/ UpdateReturn(1)

SerialSpec == Init /\ [][SerialNext]_vars

\* The requests of the concurrent runs: one announcement that is created
\* valid, one with its dates out of order, and the updates that move one date
\* each, or nothing at all.
RaceCreateRequests ==
    {r \in CreateRequests :
        \/ /\ r.teacher_username = "mrodriguez"
           /\ r.announcement.start_date \in {None, "2025-6-6"}
           /\ r.announcement.expiration_date \in {"2025-06-05", "2025-6-6"}
        \/ /\ r.teacher_username = "stranger"
           /\ r.announcement.start_date = None
           /\ r.announcement.expiration_date = "2025-06-05"}

RaceUpdateInputs ==
    {<< >>, "start_date" :> "2025-6-6", "expiration_date" :> "2025-06-05"}

RaceUpdateRequests ==
    {r \in UpdateRequests : r.announcement \in RaceUpdateInputs}

RaceCreate ==
    \E r \in RaceCreateRequests :
        create_announcement(r.announcement, r.teacher_username)

RaceUpdate(p) ==
    \E r \in RaceUpdateRequests :
        UpdateLookup(p, r.announcement_id, r.announcement, r.teacher_username)

\* Requests served concurrently: the three store operations of an update
\* interleave with every other call.
Next ==
    \/ RaceCreate
    \/ Delete
    \/ \E p \in Procs : RaceUpdate(p)
    \/ \E p \in Procs : UpdateWrite(p)
    \/ \E p \in Procs : UpdateReturn(p)

Spec == Init /\ [][Next]_vars

\* ----------------------------------------------------------------- claims
\* The stored document with ObjectId n, NoDocument if there is none.
Stored(coll, n) ==
    IF \E d \in coll : d._id = n THEN CHOOSE d \in coll : d._id = n
    ELSE NoDocument

\* C1: on every day, whatever create and update have stored, the active
\* listing is exactly the stored announcements with is_active true, an
\* expiration date that is not before today and a start date that is absent
\* or not after today, both compared as calendar dates.  (An empty start_date
\* counts as absent here, as the listing treats it.)
C1_ActiveListingByCalendarDate ==
    ListAnnouncements(announcements_collection, TRUE, isoformat(today))
      = {Public(d) : d \in
           {a \in announcements_collection :
               /\ a.is_active = TRUE
               /\ ~DateLess(ParseDate(a.expiration_date), today)
               /\ \/ ~Truthy(a.start_date)
                  \/ ~DateLess(today, ParseDate(a.start_date))}}

\* C2: every stored announcement has an expiration_date that parses as a
\* calendar date and a start_date that, when present, is not after it,
\* under every interleaving of concurrent calls.
C2_StoredDatesOrdered ==
    \A d \in announcements_collection :
        /\ ParseDate(d.expiration_date).ok
        /\ Truthy(d.start_date) =>
              /\ ParseDate(d.start_date).ok
              /\ ~DateLess(ParseDate(d.expiration_date),
                           ParseDate(d.start_date))

\* C3: a create, update or delete call by an identity that is not in
\* teachers_collection is answered Unauthorized, whatever else it carries,
\* issues no operation on announcements_collection and leaves it unchanged.
C3_UnknownTeacherRejected ==
    [][(/\ resp'.op \in {"create", "update", "delete"}
        /\ resp'.teacher_username \notin teachers_collection)
         => /\ resp'.status = "Unauthorized"
            /\ resp'.ops = 0
            /\ announcements_collection' = announcements_collection]_vars

\* An unknown identity was turned away on an update of a malformed
\* identifier, on a create and on a delete of a stored announcement.
C3_Witness ==
    /\ resp.status = "Unauthorized"
    /\ resp.teacher_username = "stranger"
    /\ resp.op = "update"
    /\ resp.announcement_id = "not-an-id"
    /\ announcements_collection # {}

\* What C4 says create accepts: a well-formed expiration_date that is not
\* before today, and a start_date that is absent or well-formed and not
\* after it.
C4_Accepts(announcement, now) ==
    /\ ParseDate(announcement.expiration_date).ok
    /\ ~DateLess(ParseDate(announcement.expiration_date), now)
    /\ \/ announcement.start_date = None
       \/ /\ ParseDate(announcement.start_date).ok
          /\ ~DateLess(ParseDate(announcement.expiration_date),
                       ParseDate(announcement.start_date))

\* C4: a create by a known teacher stores and returns the announcement
\* exactly when C4_Accepts, and is answered InvalidInput in every other
\* case.
C4_CreateAcceptsExactlyValidDates ==
    [][\A announcement \in CreateInputs :
          create_announcement(announcement, "mrodriguez") =>
             IF C4_Accepts(announcement, today)
               THEN /\ resp'.status = "ok"
                    /\ resp'.body = [id |-> str(issued + 1)] @@ announcement
                    /\ ([_id |-> issued + 1] @@ announcement)
                          \in announcements_collection'
               ELSE /\ resp'.status = "InvalidInput"
                    /\ announcements_collection' = announcements_collection
      ]_vars

\* C5: a step that answers Unauthorized, InvalidInput, NotFound or
\* StorageFailure leaves announcements_collection as it was, and so does the
\* one step an update takes before it (its lookup and validation).
C5_FailedCallsWriteNothing ==
    [][/\ resp'.status \in {"Unauthorized", "InvalidInput", "NotFound",
                            "StorageFailure"}
          => announcements_collection' = announcements_collection
       /\ \A p \in Procs :
            (pc[p] = "idle" /\ pc'[p] # "idle")
               => announcements_collection' = announcements_collection]_vars

\* An update was answered StorageFailure while an announcement is stored.
C5_Witness ==
    /\ resp.op = "update"
    /\ resp.status = "StorageFailure"
    /\ announcements_collection # {}

\* The document C6 says a successful update leaves: the supplied fields at
\* the supplied values, the others and the identifier as they were.
C6_After(old, update_doc) ==
    [_id |-> old._id,
     message |-> IF "message" \in DOMAIN update_doc
                   THEN update_doc["message"] ELSE old.message,
     start_date |-> IF "start_date" \in DOMAIN update_doc
                      THEN update_doc["start_date"] ELSE old.start_date,
     expiration_date |-> IF "expiration_date" \in DOMAIN update_doc
                           THEN update_doc["expiration_date"]
                           ELSE old.expiration_date,
     is_active |-> IF "is_active" \in DOMAIN update_doc
                     THEN update_doc["is_active"] ELSE old.is_active]

\* C6: with calls served one at a time, the write of an update replaces the
\* addressed document by C6_After and touches no other document; the update
\* then returns that stored document under the requested identifier; no
\* other step changes a stored document; and a document whose is_active is
\* false is in no active listing.
C6_UpdateSetsOnlySuppliedFields ==
    [][/\ \A p \in Procs :
            (pc[p] = "update_one" /\ pc'[p] = "find_one") =>
               LET old == Stored(announcements_collection, call[p].obj_id)
               IN /\ old # NoDocument
                  /\ announcements_collection' =
                       (announcements_collection \ {old})
                          \cup {C6_After(old, call[p].update_doc)}
       /\ \A p \in Procs :
            (pc[p] = "find_one" /\ pc'[p] = "idle") =>
               /\ resp'.status = "ok"
               /\ resp'.body.id = call[p].announcement_id
               /\ \E d \in announcements_collection :
                     /\ str(d._id) = call[p].announcement_id
                     /\ resp'.body = Public(d)
                     /\ \A k \in DOMAIN call[p].update_doc :
                           d[k] = call[p].update_doc[k]
               /\ announcements_collection' = announcements_collection
       /\ (\A p \in Procs : pc[p] # "update_one") =>
             \A d \in announcements_collection' :
                d \in announcements_collection \/ d._id = issued + 1
       /\ (announcements_collection' # announcements_collection
             \/ today' # today) =>
             \A d \in announcements_collection' :
                d.is_active = FALSE =>
                   Public(d) \notin
                      ListAnnouncements(announcements_collection', TRUE,
                                        isoformat(today'))
      ]_vars

\* An update that supplied only is_active = false has written: of the two
\* stored announcements, the addressed one keeps its message and dates, is
\* inactive and is missing from the active listing, which shows the other.
C6_Witness ==
    \E p \in Procs :
       /\ pc[p] = "find_one"
       /\ call[p].update_doc = ("is_active" :> FALSE)
       /\ Cardinality(announcements_collection) = 2
       /\ LET d == Stored(announcements_collection, call[p].obj_id)
          IN /\ d.is_active = FALSE
             /\ d.message = "m1"
             /\ d.expiration_date = "2025-6-6"
             /\ Public(d) \notin
                  ListAnnouncements(announcements_collection, TRUE,
                                    isoformat(today))
       /\ ListAnnouncements(announcements_collection, TRUE,
                            isoformat(today)) # {}

\* What C7 says update rejects: a malformed effective expiration_date, or an
\* effective start_date that is present and malformed or after it.
C7_Rejects(start_date, exp_date) ==
    \/ ~ParseDate(exp_date).ok
    \/ /\ start_date # None
       /\ \/ ~ParseDate(start_date).ok
          \/ DateLess(ParseDate(exp_date), ParseDate(start_date))

\* C7: an update by a known teacher of a stored announcement that supplies
\* at least one field is answered InvalidInput exactly when C7_Rejects holds
\* of the effective dates, whatever today is.
C7_UpdateRejectsExactlyInvalidDates ==
    [][\A r \in UpdateRequests :
          LET existing == Stored(announcements_collection,
                                 ObjectId(r.announcement_id))
          IN (/\ pc[1] = "idle"
              /\ r.teacher_username \in teachers_collection
              /\ DOMAIN r.announcement # {}
              /\ existing # NoDocument
              /\ UpdateLookup(1, r.announcement_id, r.announcement,
                              r.teacher_username))
               => (resp'.status = "InvalidInput"
                     <=> C7_Rejects(
                           IF "start_date" \in DOMAIN r.announcement
                             THEN r.announcement["start_date"]
                             ELSE existing.start_date,
                           IF "expiration_date" \in DOMAIN r.announcement
                             THEN r.announcement["expiration_date"]
                             ELSE existing.expiration_date))
      ]_vars

\* C8: a delete by a known teacher of a well-formed identifier removes
\* exactly the stored document with that identifier and succeeds, or finds
\* none, changes nothing and is answered NotFound; an identifier that was
\* issued and is no longer stored is never stored again; and an update that
\* looks up an identifier that is not stored is answered NotFound.  Hence of
\* the deletes of one identifier exactly one succeeds.
C8_DeleteOnceThenNotFound ==
    [][/\ (/\ resp'.op = "delete"
           /\ resp'.teacher_username \in teachers_collection
           /\ ObjectId(resp'.announcement_id) # 0)
          => LET d == Stored(announcements_collection,
                             ObjectId(resp'.announcement_id))
             IN IF d # NoDocument
                  THEN /\ resp'.status = "ok"
                       /\ announcements_collection'
                            = announcements_collection \ {d}
                  ELSE /\ resp'.status = "NotFound"
                       /\ announcements_collection'
                            = announcements_collection
       /\ \A n \in 1..issued :
             Stored(announcements_collection, n) = NoDocument
                => Stored(announcements_collection', n) = NoDocument
       /\ (/\ resp'.op = "update"
           /\ pc' = pc
           /\ resp'.teacher_username \in teachers_collection
           /\ ObjectId(resp'.announcement_id) # 0
           /\ Stored(announcements_collection,
                     ObjectId(resp'.announcement_id)) = NoDocument)
          => resp'.status = "NotFound"
      ]_vars

\* A delete of an identifier that was issued and deleted before is answered
\* NotFound, while another announcement is still stored and an update of the
\* deleted one is under way.
C8_Witness ==
    /\ resp.op = "delete"
    /\ resp.status = "NotFound"
    /\ ObjectId(resp.announcement_id) \in 1..issued
    /\ announcements_collection # {}
    /\ \E p \in Procs :
          pc[p] # "idle" /\ call[p].announcement_id = resp.announcement_id

\* C9: with calls served one at a time, an update by a known teacher of a
\* stored announcement that supplies no field goes on to its write without
\* an InvalidInput, the write leaves announcements_collection as it was, and
\* the call returns the stored document, unchanged.
C9_EmptyUpdateChangesNothing ==
    [][/\ \A announcement_id \in IdInputs :
            (/\ pc[1] = "idle"
             /\ announcement_id
                  \in {resp'.announcement_id, call'[1].announcement_id}
             /\ Stored(announcements_collection, ObjectId(announcement_id))
                  # NoDocument
             /\ UpdateLookup(1, announcement_id, << >>, "mrodriguez"))
               => pc'[1] = "update_one"
       /\ \A p \in Procs :
            (pc[p] = "update_one" /\ call[p].update_doc = << >>) =>
               /\ pc'[p] = "find_one"
               /\ announcements_collection' = announcements_collection
       /\ \A p \in Procs :
            (pc[p] = "find_one" /\ call[p].update_doc = << >>) =>
               /\ pc'[p] = "idle"
               /\ resp'.status = "ok"
               /\ resp'.body = Public(Stored(announcements_collection,
                                             call[p].obj_id))
               /\ announcements_collection' = announcements_collection
      ]_vars

\* An update that supplied no field has written and is about to return; the
\* announcement it addressed is stored, with an expiration date in the past.
C9_Witness ==
    \E p \in Procs :
       /\ pc[p] = "find_one"
       /\ call[p].update_doc = << >>
       /\ Stored(announcements_collection, call[p].obj_id) # NoDocument
       /\ DateLess(ParseDate(Stored(announcements_collection,
                                    call[p].obj_id).expiration_date), today)

\* C10: an update by a known teacher of a well-formed identifier either
\* returns a document that carries the requested identifier and is stored
\* when it returns, or is answered InvalidInput, NotFound or StorageFailure.
C10_UpdateOutcomes ==
    (/\ resp.op = "update"
     /\ resp.teacher_username \in teachers_collection
     /\ ObjectId(resp.announcement_id) # 0)
      => \/ resp.status \in {"InvalidInput", "NotFound", "StorageFailure"}
         \/ /\ resp.status = "ok"
            /\ resp.body.id = resp.announcement_id
            /\ \E d \in announcements_collection : resp.body = Public(d)

====
